---- MODULE Spec2Model ----
(***************************************************************************)
(* filerix: validated create / read / delete of files, with the path       *)
(* validation and content sanitization helpers they rest on.               *)
(*                                                                         *)
(* Text is a sequence of code points, file content a sequence of bytes.    *)
(* A content value is a tagged record: [t |-> "str", s |-> text],          *)
(* [t |-> "bytes", b |-> bytes], [t |-> "int", n |-> Int],                 *)
(* [t |-> "float", h |-> Int] (the float h/2), [t |-> "bool", v |-> BOOLEAN],*)
(* [t |-> "none"], [t |-> "dict", items |-> <<[k |-> text, v |-> value]>>],*)
(* [t |-> "list", items |-> <<value>>], [t |-> "object"] (any other type). *)
(***************************************************************************)
EXTENDS Integers, Sequences, FiniteSets, TLC

VARIABLES fs, last, calls

vars == <<fs, last, calls>>

(***************************************************************************)
(* Characters                                                              *)
(***************************************************************************)
TAB == 9
LF == 10
CR == 13
SP == 32
TILDE == 126

\* 'x' of a one-character ASCII literal used by the code
Quote == 34
Backslash == 92

\* str.isspace() on the Latin-1 range
IsSpace(c) == c \in {9, 10, 11, 12, 13, 28, 29, 30, 31, 32, 133, 160}

RECURSIVE Concat(_)
\* ''.join(parts)
Concat(parts) ==
    IF parts = <<>> THEN <<>> ELSE Head(parts) \o Concat(Tail(parts))

RECURSIVE LStrip(_)
LStrip(s) ==
    IF s # <<>> /\ IsSpace(Head(s)) THEN LStrip(Tail(s)) ELSE s

RECURSIVE RStrip(_)
RStrip(s) ==
    IF s # <<>> /\ IsSpace(s[Len(s)]) THEN RStrip(SubSeq(s, 1, Len(s) - 1)) ELSE s

\* str.strip()
Strip(s) == RStrip(LStrip(s))

(***************************************************************************)
(* str(content) for the primitive types                                    *)
(***************************************************************************)
Digit(d) == <<48 + d>>

RECURSIVE NatStr(_)
NatStr(n) == IF n < 10 THEN Digit(n) ELSE NatStr(n \div 10) \o Digit(n % 10)

\* str(int)
IntStr(n) == IF n < 0 THEN <<45>> \o NatStr(-n) ELSE NatStr(n)

\* str(float) of the float h/2: "1.0", "-0.5", "2.5"
FloatStr(h) ==
    LET a == IF h < 0 THEN -h ELSE h
    IN  (IF h < 0 THEN <<45>> ELSE <<>>) \o NatStr(a \div 2) \o <<46>>
            \o Digit(IF a % 2 = 0 THEN 0 ELSE 5)

\* str(bool): "True" / "False"
BoolStr(b) == IF b THEN <<84, 114, 117, 101>> ELSE <<70, 97, 108, 115, 101>>

\* str(None): "None"
NoneStr == <<78, 111, 110, 101>>

(***************************************************************************)
(* bytes.decode('utf-8') and str.encode                                    *)
(***************************************************************************)
IsCont(b) == b >= 128 /\ b <= 191

RECURSIVE Utf8Decode(_)
\* [ok |-> TRUE, val |-> text] or [ok |-> FALSE] (UnicodeDecodeError)
Utf8Decode(b) ==
    IF b = <<>> THEN [ok |-> TRUE, val |-> <<>>]
    ELSE LET b1 == b[1]
             n == IF b1 < 128 THEN 1
                  ELSE IF b1 >= 194 /\ b1 <= 223 THEN 2
                  ELSE IF b1 >= 224 /\ b1 <= 239 THEN 3
                  ELSE IF b1 >= 240 /\ b1 <= 244 THEN 4
                  ELSE 0
             wellFormed ==
                 /\ n > 0
                 /\ Len(b) >= n
                 /\ \A i \in 2..n : IsCont(b[i])
                 /\ (b1 = 224 => b[2] >= 160)
                 /\ (b1 = 237 => b[2] <= 159)
                 /\ (b1 = 240 => b[2] >= 144)
                 /\ (b1 = 244 => b[2] <= 143)
             cp == IF n = 1 THEN b1
                   ELSE IF n = 2 THEN (b1 - 192) * 64 + (b[2] - 128)
                   ELSE IF n = 3 THEN (b1 - 224) * 4096 + (b[2] - 128) * 64 + (b[3] - 128)
                   ELSE (b1 - 240) * 262144 + (b[2] - 128) * 4096
                            + (b[3] - 128) * 64 + (b[4] - 128)
         IN  IF ~wellFormed THEN [ok |-> FALSE]
             ELSE LET rest == Utf8Decode(SubSeq(b, n + 1, Len(b)))
                  IN  IF rest.ok THEN [ok |-> TRUE, val |-> <<cp>> \o rest.val]
                      ELSE [ok |-> FALSE]

\* one code point as UTF-8 (surrogates cannot be encoded)
Utf8Char(c) ==
    IF c < 128 THEN <<c>>
    ELSE IF c < 2048 THEN <<192 + (c \div 64), 128 + (c % 64)>>
    ELSE IF c < 65536
         THEN <<224 + (c \div 4096), 128 + ((c \div 64) % 64), 128 + (c % 64)>>
    ELSE <<240 + (c \div 262144), 128 + ((c \div 4096) % 64),
           128 + ((c \div 64) % 64), 128 + (c % 64)>>

\* str.encode('utf-8')
Utf8Encode(s) == Concat([i \in 1..Len(s) |-> Utf8Char(s[i])])

(***************************************************************************)
(* json.dumps(content, ensure_ascii = False, indent = ...)                 *)
(***************************************************************************)
HexDigit(d) == IF d < 10 THEN <<48 + d>> ELSE <<87 + d>>

\* one character of a JSON string literal: the short escapes, \u00xx for the
\* other control characters, everything else (non-ASCII too) literally
JsonEscapeChar(c) ==
    IF c = Quote THEN <<Backslash, Quote>>
    ELSE IF c = Backslash THEN <<Backslash, Backslash>>
    ELSE IF c = 8 THEN <<Backslash, 98>>
    ELSE IF c = 12 THEN <<Backslash, 102>>
    ELSE IF c = LF THEN <<Backslash, 110>>
    ELSE IF c = CR THEN <<Backslash, 114>>
    ELSE IF c = TAB THEN <<Backslash, 116>>
    ELSE IF c < SP THEN <<Backslash, 117, 48, 48>> \o HexDigit(c \div 16) \o HexDigit(c % 16)
    ELSE <<c>>

JsonString(s) ==
    <<Quote>> \o Concat([i \in 1..Len(s) |-> JsonEscapeChar(s[i])]) \o <<Quote>>

Spaces(n) == [i \in 1..n |-> SP]

\* indent = -1 stands for indent = None
NewlineIndent(indent, level) ==
    IF indent < 0 THEN <<>> ELSE <<LF>> \o Spaces(indent * level)

ItemSeparator(indent, level) ==
    IF indent < 0 THEN <<44, SP>> ELSE <<44>> \o NewlineIndent(indent, level)

RECURSIVE JsonSerializable(_)
\* what json.dumps accepts; anything else makes it raise TypeError
JsonSerializable(v) ==
    CASE v.t \in {"str", "int", "float", "bool", "none"} -> TRUE
      [] v.t = "list" -> \A i \in 1..Len(v.items) : JsonSerializable(v.items[i])
      [] v.t = "dict" -> \A i \in 1..Len(v.items) : JsonSerializable(v.items[i].v)
      [] OTHER -> FALSE

RECURSIVE JsonEncode(_, _, _)
RECURSIVE JsonJoin(_, _)
\* parts joined by sep
JsonJoin(parts, sep) ==
    IF parts = <<>> THEN <<>>
    ELSE IF Len(parts) = 1 THEN parts[1]
    ELSE parts[1] \o sep \o JsonJoin(Tail(parts), sep)

\* the text json.dumps yields for a serializable v nested `level` deep
JsonEncode(v, indent, level) ==
    CASE v.t = "str" -> JsonString(v.s)
      [] v.t = "int" -> IntStr(v.n)
      [] v.t = "float" -> FloatStr(v.h)
      [] v.t = "bool" -> IF v.v THEN <<116, 114, 117, 101>> ELSE <<102, 97, 108, 115, 101>>
      [] v.t = "none" -> <<110, 117, 108, 108>>
      [] v.t = "list" ->
            IF v.items = <<>> THEN <<91, 93>>
            ELSE <<91>> \o NewlineIndent(indent, level + 1)
                 \o JsonJoin([i \in 1..Len(v.items) |->
                                 JsonEncode(v.items[i], indent, level + 1)],
                             ItemSeparator(indent, level + 1))
                 \o NewlineIndent(indent, level) \o <<93>>
      [] v.t = "dict" ->
            IF v.items = <<>> THEN <<123, 125>>
            ELSE <<123>> \o NewlineIndent(indent, level + 1)
                 \o JsonJoin([i \in 1..Len(v.items) |->
                                 JsonString(v.items[i].k) \o <<58, SP>>
                                     \o JsonEncode(v.items[i].v, indent, level + 1)],
                             ItemSeparator(indent, level + 1))
                 \o NewlineIndent(indent, level) \o <<125>>

JsonDumps(v, indent) ==
    IF JsonSerializable(v) THEN [ok |-> TRUE, val |-> JsonEncode(v, indent, 0)]
    ELSE [ok |-> FALSE]

(***************************************************************************)
(* _sanitize_content                                                       *)
(***************************************************************************)
\* the characters re.sub(r'[^\x20-\x7E\t\n]', '', ...) leaves in place
KeptChar(c) == (c >= SP /\ c <= TILDE) \/ c = TAB \/ c = LF

StripControl(s) == SelectSeq(s, KeptChar)

RECURSIVE ReplaceCRLF(_)
\* str.replace('\r\n', '\n')
ReplaceCRLF(s) ==
    IF s = <<>> THEN <<>>
    ELSE IF Len(s) >= 2 /\ s[1] = CR /\ s[2] = LF
         THEN <<LF>> \o ReplaceCRLF(SubSeq(s, 3, Len(s)))
    ELSE <<Head(s)>> \o ReplaceCRLF(Tail(s))

\* str.replace('\r', '\n')
ReplaceCR(s) == [i \in 1..Len(s) |-> IF s[i] = CR THEN LF ELSE s[i]]

NormalizeNewlines(s) == ReplaceCR(ReplaceCRLF(s))

RECURSIVE CollapseNewlines(_)
\* re.sub(r'\n{2,}', '\n', ...)
CollapseNewlines(s) ==
    IF s = <<>> THEN <<>>
    ELSE IF Len(s) >= 2 /\ s[1] = LF /\ s[2] = LF THEN CollapseNewlines(Tail(s))
    ELSE <<Head(s)>> \o CollapseNewlines(Tail(s))

IsBlank(c) == c = SP \/ c = TAB

RECURSIVE CollapseSpaces(_)
\* a plausible slip: re.sub(r' +', ' ', ...), which leaves the tabs alone
CollapseSpaces(s) ==
    IF s = <<>> THEN <<>>
    ELSE IF Len(s) >= 2 /\ s[1] = SP /\ s[2] = SP THEN CollapseSpaces(Tail(s))
    ELSE <<Head(s)>> \o CollapseSpaces(Tail(s))

RECURSIVE CollapseBlanks(_)
\* re.sub(r'[ \t]+', ' ', ...)
CollapseBlanks(s) ==
    IF s = <<>> THEN <<>>
    ELSE IF IsBlank(s[1])
         THEN IF Len(s) >= 2 /\ IsBlank(s[2]) THEN CollapseBlanks(Tail(s))
              ELSE <<SP>> \o CollapseBlanks(Tail(s))
    ELSE <<Head(s)>> \o CollapseBlanks(Tail(s))

Compact(s) == Strip(CollapseBlanks(CollapseNewlines(s)))

\* the conversion to text: [ok |-> TRUE, val |-> text], or the TypeError raised
ToText(content, compact) ==
    IF content.t \in {"dict", "list"}
    THEN LET d == JsonDumps(content, IF compact THEN -1 ELSE 2)
         IN  IF d.ok THEN d ELSE [ok |-> FALSE, exc |-> "TypeError", why |-> "json"]
    ELSE IF content.t = "str" THEN [ok |-> TRUE, val |-> content.s]
    ELSE IF content.t = "int" THEN [ok |-> TRUE, val |-> IntStr(content.n)]
    ELSE IF content.t = "float" THEN [ok |-> TRUE, val |-> FloatStr(content.h)]
    ELSE IF content.t = "bool" THEN [ok |-> TRUE, val |-> BoolStr(content.v)]
    ELSE IF content.t = "none" THEN [ok |-> TRUE, val |-> NoneStr]
    ELSE IF content.t = "bytes"
    THEN LET d == Utf8Decode(content.b)
         IN  IF d.ok THEN d ELSE [ok |-> FALSE, exc |-> "TypeError", why |-> "utf-8"]
    ELSE [ok |-> FALSE, exc |-> "TypeError", why |-> "unsupported"]

\* a plausible slip: every cleaning step inside the "if compact" block
PostProcessWhenCompact(s, compact) ==
    IF compact THEN Compact(NormalizeNewlines(StripControl(s))) ELSE s

\* the text after the post-processing steps
PostProcess(s, compact) ==
    LET n == NormalizeNewlines(StripControl(s))
    IN  IF compact THEN Compact(n) ELSE n

\* [ok |-> TRUE, val |-> text], or [ok |-> FALSE, exc |-> ..., why |-> ...]
_sanitize_content(content, compact) ==
    LET t == ToText(content, compact)
    IN  IF ~t.ok THEN t
        ELSE LET content_str == PostProcess(t.val, compact)
             IN  IF Strip(content_str) = <<>>
                 THEN [ok |-> FALSE, exc |-> "ValueError", why |-> "empty"]
                 ELSE [ok |-> TRUE, val |-> content_str]

(***************************************************************************)
(* The filesystem: a function from the resolved paths that exist to their  *)
(* entry.  A path is the sequence of its segments below the working        *)
(* directory <<>>, which always exists.  r and w are the access bits the   *)
(* calling user has on the entry.  A segment is text, like any string.     *)
(***************************************************************************)
Dot == 46

Dir(r, w) == [kind |-> "dir", r |-> r, w |-> w]

File(data, r, w) == [kind |-> "file", data |-> data, r |-> r, w |-> w]

RECURSIVE ResolveFrom(_, _)
ResolveFrom(done, rest) ==
    IF rest = <<>> THEN done
    ELSE IF Head(rest) = <<Dot>> THEN ResolveFrom(done, Tail(rest))
    ELSE IF Head(rest) = <<Dot, Dot>>
         THEN ResolveFrom(IF done = <<>> THEN <<>> ELSE SubSeq(done, 1, Len(done) - 1),
                          Tail(rest))
    ELSE ResolveFrom(Append(done, Head(rest)), Tail(rest))

\* Path(path).expanduser().resolve(): no symbolic links, no "~" in the model
Resolve(raw) == ResolveFrom(<<>>, raw)

\* Path.parent (the root is its own parent)
Parent(p) == IF p = <<>> THEN <<>> ELSE SubSeq(p, 1, Len(p) - 1)

\* Path.name
Name(p) == IF p = <<>> THEN <<>> ELSE p[Len(p)]

\* name.startswith('.')
StartsWithDot(name) == name # <<>> /\ name[1] = Dot

Exists(f, p) == p \in DOMAIN f

IsFile(f, p) == Exists(f, p) /\ f[p].kind = "file"

IsDir(f, p) == Exists(f, p) /\ f[p].kind = "dir"

\* os.access(path, os.R_OK) / os.access(path, os.W_OK)
AccessR(f, p) == Exists(f, p) /\ f[p].r

AccessW(f, p) == Exists(f, p) /\ f[p].w

\* f with path p bound to entry e
Put(f, p, e) == [q \in DOMAIN f \cup {p} |-> IF q = p THEN e ELSE f[q]]

\* f without path p
Remove(f, p) == [q \in DOMAIN f \ {p} |-> f[q]]

\* the error of a system call on p that has to walk through p's ancestors
WalkError(f, p) ==
    IF ~Exists(f, Parent(p))
    THEN IF \E i \in 0..(Len(p) - 1) : IsFile(f, SubSeq(p, 1, i))
         THEN "NotADirectoryError" ELSE "FileNotFoundError"
    ELSE IF ~IsDir(f, Parent(p)) THEN "NotADirectoryError"
    ELSE "none"

\* os.mkdir(p): [ok |-> TRUE, fs |-> ...] or [ok |-> FALSE, exc |-> ...]
OsMkdir(f, p) ==
    IF Exists(f, p) THEN [ok |-> FALSE, exc |-> "FileExistsError"]
    ELSE IF WalkError(f, p) # "none" THEN [ok |-> FALSE, exc |-> WalkError(f, p)]
    ELSE IF ~AccessW(f, Parent(p)) THEN [ok |-> FALSE, exc |-> "PermissionError"]
    ELSE [ok |-> TRUE, fs |-> Put(f, p, Dir(TRUE, TRUE))]

RECURSIVE Mkdir(_, _, _, _)
\* Path.mkdir(parents = ..., exist_ok = ...)
Mkdir(f, p, parents, exist_ok) ==
    LET m == OsMkdir(f, p)
    IN  IF m.ok THEN m
        ELSE IF m.exc = "FileNotFoundError"
        THEN IF ~parents \/ Parent(p) = p THEN m
             ELSE LET up == Mkdir(f, Parent(p), TRUE, TRUE)
                  IN  IF up.ok THEN Mkdir(up.fs, p, FALSE, exist_ok) ELSE up
        ELSE IF ~exist_ok \/ ~IsDir(f, p) THEN m
        ELSE [ok |-> TRUE, fs |-> f]

\* str.encode(encoding): [ok |-> TRUE, val |-> bytes] or [ok |-> FALSE]
Encode(s, encoding) ==
    IF encoding = "utf-8" THEN [ok |-> TRUE, val |-> Utf8Encode(s)]
    ELSE IF \A i \in 1..Len(s) : s[i] < (IF encoding = "ascii" THEN 128 ELSE 256)
    THEN [ok |-> TRUE, val |-> s]
    ELSE [ok |-> FALSE]

\* bytes.decode(encoding): [ok |-> TRUE, val |-> text] or [ok |-> FALSE]
Decode(b, encoding) ==
    IF encoding = "utf-8" THEN Utf8Decode(b)
    ELSE IF encoding = "ascii" /\ \E i \in 1..Len(b) : b[i] >= 128 THEN [ok |-> FALSE]
    ELSE [ok |-> TRUE, val |-> b]

\* Path.open(mode = 'w'): the file is made, or emptied with its access bits
\* kept
OpenW(f, p) ==
    IF IsDir(f, p) THEN [ok |-> FALSE, exc |-> "IsADirectoryError", fs |-> f]
    ELSE IF ~Exists(f, p) /\ WalkError(f, p) # "none"
    THEN [ok |-> FALSE, exc |-> WalkError(f, p), fs |-> f]
    ELSE IF ~(IF Exists(f, p) THEN AccessW(f, p) ELSE AccessW(f, Parent(p)))
    THEN [ok |-> FALSE, exc |-> "PermissionError", fs |-> f]
    ELSE [ok |-> TRUE,
          fs |-> Put(f, p, IF Exists(f, p) THEN [f[p] EXCEPT !.data = <<>>]
                           ELSE File(<<>>, TRUE, TRUE))]

\* f.write(data) and the close that flushes it, on the file opened at p
FileWrite(f, p, data) == IF IsFile(f, p) THEN [f EXCEPT ![p].data = data] ELSE f

\* Path.write_text(text, encoding): the file is opened (and truncated) first
WriteText(f, p, text, encoding) ==
    LET opened == OpenW(f, p)
        e == Encode(text, encoding)
    IN  IF ~opened.ok THEN opened
        ELSE IF e.ok THEN [ok |-> TRUE, fs |-> FileWrite(opened.fs, p, e.val)]
        ELSE [ok |-> FALSE, exc |-> "UnicodeEncodeError", fs |-> opened.fs]

\* Path.read_text(encoding): decoding, then universal newlines
ReadText(f, p, encoding) ==
    IF ~Exists(f, p)
    THEN [ok |-> FALSE,
          exc |-> IF WalkError(f, p) # "none" THEN WalkError(f, p)
                  ELSE "FileNotFoundError"]
    ELSE IF ~AccessR(f, p) THEN [ok |-> FALSE, exc |-> "PermissionError"]
    ELSE IF IsDir(f, p) THEN [ok |-> FALSE, exc |-> "IsADirectoryError"]
    ELSE LET d == Decode(f[p].data, encoding)
         IN  IF d.ok THEN [ok |-> TRUE, val |-> NormalizeNewlines(d.val)]
             ELSE [ok |-> FALSE, exc |-> "UnicodeDecodeError"]

\* Path.read_bytes()
ReadBytes(f, p) ==
    IF ~Exists(f, p)
    THEN [ok |-> FALSE,
          exc |-> IF WalkError(f, p) # "none" THEN WalkError(f, p)
                  ELSE "FileNotFoundError"]
    ELSE IF ~AccessR(f, p) THEN [ok |-> FALSE, exc |-> "PermissionError"]
    ELSE IF IsDir(f, p) THEN [ok |-> FALSE, exc |-> "IsADirectoryError"]
    ELSE [ok |-> TRUE, val |-> f[p].data]

\* Path.unlink()
Unlink(f, p) ==
    IF ~Exists(f, p)
    THEN [ok |-> FALSE,
          exc |-> IF WalkError(f, p) # "none" THEN WalkError(f, p)
                  ELSE "FileNotFoundError"]
    ELSE IF ~AccessW(f, Parent(p)) THEN [ok |-> FALSE, exc |-> "PermissionError"]
    ELSE IF IsDir(f, p) THEN [ok |-> FALSE, exc |-> "IsADirectoryError"]
    ELSE [ok |-> TRUE, fs |-> Remove(f, p)]

(***************************************************************************)
(* _validate_path                                                          *)
(***************************************************************************)
PathValidationError(path, why) ==
    [ok |-> FALSE, exc |-> "PathValidationError", why |-> why, path |-> path]

\* a plausible slip: the hidden check made after the access checks
ValidateHiddenLast(f, raw, must_exist, is_file, readable, writable, allow_hidden) ==
    LET path == Resolve(raw)
    IN  IF must_exist /\ ~Exists(f, path) THEN PathValidationError(path, "NotFound")
        ELSE IF is_file = "True" /\ ~IsFile(f, path)
        THEN PathValidationError(path, "WrongKind")
        ELSE IF is_file = "False" /\ ~IsDir(f, path)
        THEN PathValidationError(path, "WrongKind")
        ELSE IF readable /\ ~AccessR(f, path)
        THEN PathValidationError(path, "NotReadable")
        ELSE IF writable /\ ~AccessW(f, path)
        THEN PathValidationError(path, "NotWritable")
        ELSE IF ~allow_hidden /\ StartsWithDot(Name(path))
        THEN PathValidationError(path, "HiddenRejected")
        ELSE [ok |-> TRUE, val |-> path]

\* is_file is "None", "True" or "False"
_validate_path(f, raw, must_exist, is_file, readable, writable, allow_hidden) ==
    LET path == Resolve(raw)
    IN  IF must_exist /\ ~Exists(f, path) THEN PathValidationError(path, "NotFound")
        ELSE IF is_file = "True" /\ ~IsFile(f, path)
        THEN PathValidationError(path, "WrongKind")
        ELSE IF is_file = "False" /\ ~IsDir(f, path)
        THEN PathValidationError(path, "WrongKind")
        ELSE IF ~allow_hidden /\ StartsWithDot(Name(path))
        THEN PathValidationError(path, "HiddenRejected")
        ELSE IF readable /\ ~AccessR(f, path)
        THEN PathValidationError(path, "NotReadable")
        ELSE IF writable /\ ~AccessW(f, path)
        THEN PathValidationError(path, "NotWritable")
        ELSE [ok |-> TRUE, val |-> path]

(***************************************************************************)
(* _ensure_directory: [out |-> result, fs |-> the filesystem afterwards]   *)
(***************************************************************************)
\* a plausible slip: directory.mkdir(parents = True), exist_ok left at False
MkdirExistOkDefault(exist_ok) == FALSE

\* the exist_ok that _ensure_directory hands to Path.mkdir
MkdirExistOk(exist_ok) == exist_ok

_ensure_directory(f, raw, create_if_missing, exist_ok) ==
    LET directory == Resolve(raw)
    IN  IF Exists(f, directory)
        THEN IF ~IsDir(f, directory)
             THEN [out |-> PathValidationError(directory, "NotADirectory"), fs |-> f]
             ELSE IF ~exist_ok
             THEN [out |-> PathValidationError(directory, "AlreadyExists"), fs |-> f]
             ELSE [out |-> [ok |-> TRUE, val |-> directory], fs |-> f]
        ELSE IF ~create_if_missing
        THEN [out |-> PathValidationError(directory, "NotFound"), fs |-> f]
        ELSE LET m == Mkdir(f, directory, TRUE, MkdirExistOk(exist_ok))
             IN  IF m.ok THEN [out |-> [ok |-> TRUE, val |-> directory], fs |-> m.fs]
                 ELSE IF m.exc = "PermissionError"
                 THEN [out |-> PathValidationError(directory, "PermissionDenied"), fs |-> f]
                 ELSE [out |-> PathValidationError(directory, "DirectoryCreateFailed"),
                       fs |-> f]

(***************************************************************************)
(* create_file, read_file, delete_file:                                    *)
(* [out |-> what the call returns or raises, fs |-> the filesystem after]  *)
(***************************************************************************)
\* the except clauses of create_file, in their order
CreateHandler(path, exc) ==
    IF exc = "PermissionError" THEN PathValidationError(path, "PermissionDenied")
    ELSE IF exc = "IsADirectoryError" THEN PathValidationError(path, "IsADirectory")
    ELSE PathValidationError(path, "Unknown")

\* a plausible slip: only a regular file in the way refuses the call
OverwriteRefusedForFiles(f, path, overwrite) == IsFile(f, path) /\ ~overwrite

\* path.exists() and not overwrite
OverwriteRefused(f, path, overwrite) == Exists(f, path) /\ ~overwrite

\* a plausible slip: the file is opened for writing, and so emptied, before
\* the content is sanitized
CreateOpeningFirst(f, raw, content, overwrite, compact, encoding) ==
    LET path == Resolve(raw)
    IN  IF OverwriteRefused(f, path, overwrite)
        THEN [out |-> PathValidationError(path, "AlreadyExists"), fs |-> f]
        ELSE LET e == _ensure_directory(f, Parent(path), TRUE, TRUE)
             IN  IF ~e.out.ok THEN e
                 ELSE LET opened == WriteText(e.fs, path, <<>>, encoding)
                          safe_content == _sanitize_content(content, compact)
                      IN  IF ~opened.ok
                          THEN [out |-> CreateHandler(path, opened.exc), fs |-> opened.fs]
                          ELSE IF ~safe_content.ok
                          THEN [out |-> safe_content, fs |-> opened.fs]
                          ELSE [out |-> [ok |-> TRUE, val |-> path],
                                fs |-> WriteText(opened.fs, path, safe_content.val,
                                                 encoding).fs]

create_file(f, raw, content, overwrite, compact, encoding) ==
    LET path == Resolve(raw)
    IN  IF OverwriteRefused(f, path, overwrite)
        THEN [out |-> PathValidationError(path, "AlreadyExists"), fs |-> f]
        ELSE LET e == _ensure_directory(f, Parent(path), TRUE, TRUE)
             IN  IF ~e.out.ok THEN e
                 ELSE LET safe_content == _sanitize_content(content, compact)
                      IN  IF ~safe_content.ok THEN [out |-> safe_content, fs |-> e.fs]
                          ELSE LET w == WriteText(e.fs, path, safe_content.val, encoding)
                               IN  IF w.ok
                                   THEN [out |-> [ok |-> TRUE, val |-> path], fs |-> w.fs]
                                   ELSE IF w.exc = "UnicodeEncodeError"
                                   THEN [out |-> [ok |-> FALSE, exc |-> "ValueError",
                                                  why |-> "encode"],
                                         fs |-> w.fs]
                                   ELSE [out |-> CreateHandler(path, w.exc), fs |-> w.fs]

\* the except clauses of read_file, in their order; raising UnicodeDecodeError
\* with one argument is itself a TypeError, which leaves the handler as it is
ReadHandler(path, exc) ==
    IF exc = "FileNotFoundError"
    THEN [ok |-> FALSE, exc |-> "FileNotFoundError", why |-> "NotFound"]
    ELSE IF exc = "PermissionError" THEN PathValidationError(path, "PermissionDenied")
    ELSE IF exc = "UnicodeDecodeError"
    THEN [ok |-> FALSE, exc |-> "TypeError", why |-> "UnicodeDecodeError arguments"]
    ELSE PathValidationError(path, "ReadFailed")

read_file(f, raw, as_bytes, encoding) ==
    LET v == _validate_path(f, raw, TRUE, "True", TRUE, FALSE, TRUE)
    IN  IF ~v.ok THEN [out |-> v, fs |-> f]
        ELSE LET r == IF as_bytes THEN ReadBytes(f, v.val)
                      ELSE ReadText(f, v.val, encoding)
             IN  IF r.ok THEN [out |-> r, fs |-> f]
                 ELSE [out |-> ReadHandler(raw, r.exc), fs |-> f]

\* the except clauses of delete_file, in their order
DeleteHandler(path, exc, ignore_missing) ==
    IF exc = "FileNotFoundError"
    THEN IF ignore_missing THEN [ok |-> TRUE, val |-> FALSE]
         ELSE [ok |-> FALSE, exc |-> "FileNotFoundError", why |-> "NotFound"]
    ELSE IF exc = "IsADirectoryError" THEN PathValidationError(path, "IsADirectory")
    ELSE IF exc = "PermissionError" THEN PathValidationError(path, "PermissionDenied")
    ELSE PathValidationError(path, "DeleteFailed")

\* a plausible slip: ignore_missing turns every failed validation into False
DeleteIgnoringInvalid(f, raw, ignore_missing) ==
    LET v == _validate_path(f, raw, TRUE, "True", FALSE, FALSE, TRUE)
    IN  IF ~v.ok
        THEN IF ignore_missing THEN [out |-> [ok |-> TRUE, val |-> FALSE], fs |-> f]
             ELSE [out |-> v, fs |-> f]
        ELSE LET u == Unlink(f, v.val)
             IN  IF u.ok THEN [out |-> [ok |-> TRUE, val |-> TRUE], fs |-> u.fs]
                 ELSE [out |-> DeleteHandler(raw, u.exc, ignore_missing), fs |-> f]

delete_file(f, raw, ignore_missing) ==
    LET v == _validate_path(f, raw, TRUE, "True", FALSE, FALSE, TRUE)
    IN  IF ~v.ok THEN [out |-> v, fs |-> f]
        ELSE LET u == Unlink(f, v.val)
             IN  IF u.ok THEN [out |-> [ok |-> TRUE, val |-> TRUE], fs |-> u.fs]
                 ELSE [out |-> DeleteHandler(raw, u.exc, ignore_missing), fs |-> f]

(***************************************************************************)
(* json.loads, as the tests use it on a file written from a mapping:       *)
(* [ok |-> TRUE, val |-> value, rest |-> text left] or [ok |-> FALSE]      *)
(***************************************************************************)
\* a text content value
Str(s) == [t |-> "str", s |-> s]

RECURSIVE SkipWs(_)
SkipWs(s) ==
    IF s # <<>> /\ Head(s) \in {SP, TAB, LF, CR} THEN SkipWs(Tail(s)) ELSE s

HexValue(c) ==
    IF c >= 48 /\ c <= 57 THEN c - 48
    ELSE IF c >= 97 /\ c <= 102 THEN c - 87
    ELSE IF c >= 65 /\ c <= 70 THEN c - 55
    ELSE -1

RECURSIVE ParseChars(_, _)
\* the characters of a string literal after its opening quote
ParseChars(s, acc) ==
    IF s = <<>> THEN [ok |-> FALSE]
    ELSE IF s[1] = Quote THEN [ok |-> TRUE, val |-> Str(acc), rest |-> Tail(s)]
    ELSE IF s[1] < SP THEN [ok |-> FALSE]
    ELSE IF s[1] # Backslash THEN ParseChars(Tail(s), Append(acc, s[1]))
    ELSE IF Len(s) < 2 THEN [ok |-> FALSE]
    ELSE IF s[2] = 117
    THEN IF Len(s) >= 6 /\ \A i \in 3..6 : HexValue(s[i]) >= 0
         THEN ParseChars(SubSeq(s, 7, Len(s)),
                         Append(acc, HexValue(s[3]) * 4096 + HexValue(s[4]) * 256
                                         + HexValue(s[5]) * 16 + HexValue(s[6])))
         ELSE [ok |-> FALSE]
    ELSE LET c == CASE s[2] = Quote -> Quote
                    [] s[2] = Backslash -> Backslash
                    [] s[2] = 47 -> 47
                    [] s[2] = 98 -> 8
                    [] s[2] = 102 -> 12
                    [] s[2] = 110 -> LF
                    [] s[2] = 114 -> CR
                    [] s[2] = 116 -> TAB
                    [] OTHER -> -1
         IN  IF c < 0 THEN [ok |-> FALSE]
             ELSE ParseChars(SubSeq(s, 3, Len(s)), Append(acc, c))

IsDigit(c) == c >= 48 /\ c <= 57

RECURSIVE ParseDigits(_, _)
ParseDigits(s, n) ==
    IF s # <<>> /\ IsDigit(Head(s)) THEN ParseDigits(Tail(s), 10 * n + (Head(s) - 48))
    ELSE [val |-> n, rest |-> s]

\* an integer, or a float with one fractional digit 0 or 5
ParseNumber(s) ==
    LET neg == s # <<>> /\ Head(s) = 45
        body == IF neg THEN Tail(s) ELSE s
    IN  IF body = <<>> \/ ~IsDigit(Head(body)) THEN [ok |-> FALSE]
        ELSE LET d == IF Head(body) = 48 THEN [val |-> 0, rest |-> Tail(body)]
                      ELSE ParseDigits(body, 0)
                 sign == IF neg THEN -1 ELSE 1
             IN  IF d.rest # <<>> /\ Head(d.rest) = 46
                 THEN IF Len(d.rest) >= 2 /\ d.rest[2] \in {48, 53}
                            /\ (Len(d.rest) = 2 \/ ~IsDigit(d.rest[3]))
                      THEN [ok |-> TRUE,
                            val |-> [t |-> "float",
                                     h |-> sign * (2 * d.val
                                                     + (IF d.rest[2] = 53 THEN 1 ELSE 0))],
                            rest |-> SubSeq(d.rest, 3, Len(d.rest))]
                      ELSE [ok |-> FALSE]
                 ELSE [ok |-> TRUE, val |-> [t |-> "int", n |-> sign * d.val],
                       rest |-> d.rest]

HasPrefix(s, pre) == Len(s) >= Len(pre) /\ SubSeq(s, 1, Len(pre)) = pre

\* a dict keeps one value per key: a repeated key replaces the earlier value
PutItem(items, k, v) ==
    IF \E i \in 1..Len(items) : items[i].k = k
    THEN [i \in 1..Len(items) |-> IF items[i].k = k THEN [k |-> k, v |-> v] ELSE items[i]]
    ELSE Append(items, [k |-> k, v |-> v])

RECURSIVE ParseValue(_)
RECURSIVE ParseElements(_, _)
RECURSIVE ParseMembers(_, _)
\* the elements of an array after "[" or ",", up to its "]"
ParseElements(s, acc) ==
    LET e == ParseValue(s)
    IN  IF ~e.ok THEN [ok |-> FALSE]
        ELSE LET r == SkipWs(e.rest)
             IN  IF r # <<>> /\ Head(r) = 44
                 THEN ParseElements(Tail(r), Append(acc, e.val))
                 ELSE IF r # <<>> /\ Head(r) = 93
                 THEN [ok |-> TRUE, val |-> [t |-> "list", items |-> Append(acc, e.val)],
                       rest |-> Tail(r)]
                 ELSE [ok |-> FALSE]

\* the members of an object after "{" or ",", up to its "}"
ParseMembers(s, acc) ==
    LET k == SkipWs(s)
    IN  IF k = <<>> \/ Head(k) # Quote THEN [ok |-> FALSE]
        ELSE LET key == ParseChars(Tail(k), <<>>)
             IN  IF ~key.ok THEN [ok |-> FALSE]
                 ELSE LET c == SkipWs(key.rest)
                      IN  IF c = <<>> \/ Head(c) # 58 THEN [ok |-> FALSE]
                          ELSE LET v == ParseValue(Tail(c))
                               IN  IF ~v.ok THEN [ok |-> FALSE]
                                   ELSE LET r == SkipWs(v.rest)
                                            items == PutItem(acc, key.val.s, v.val)
                                        IN  IF r # <<>> /\ Head(r) = 44
                                            THEN ParseMembers(Tail(r), items)
                                            ELSE IF r # <<>> /\ Head(r) = 125
                                            THEN [ok |-> TRUE,
                                                  val |-> [t |-> "dict", items |-> items],
                                                  rest |-> Tail(r)]
                                            ELSE [ok |-> FALSE]

ParseValue(text) ==
    LET s == SkipWs(text)
    IN  IF s = <<>> THEN [ok |-> FALSE]
        ELSE IF Head(s) = Quote THEN ParseChars(Tail(s), <<>>)
        ELSE IF Head(s) = 123
        THEN IF SkipWs(Tail(s)) # <<>> /\ Head(SkipWs(Tail(s))) = 125
             THEN [ok |-> TRUE, val |-> [t |-> "dict", items |-> <<>>],
                   rest |-> Tail(SkipWs(Tail(s)))]
             ELSE ParseMembers(Tail(s), <<>>)
        ELSE IF Head(s) = 91
        THEN IF SkipWs(Tail(s)) # <<>> /\ Head(SkipWs(Tail(s))) = 93
             THEN [ok |-> TRUE, val |-> [t |-> "list", items |-> <<>>],
                   rest |-> Tail(SkipWs(Tail(s)))]
             ELSE ParseElements(Tail(s), <<>>)
        ELSE IF HasPrefix(s, <<116, 114, 117, 101>>)
        THEN [ok |-> TRUE, val |-> [t |-> "bool", v |-> TRUE], rest |-> SubSeq(s, 5, Len(s))]
        ELSE IF HasPrefix(s, <<102, 97, 108, 115, 101>>)
        THEN [ok |-> TRUE, val |-> [t |-> "bool", v |-> FALSE], rest |-> SubSeq(s, 6, Len(s))]
        ELSE IF HasPrefix(s, <<110, 117, 108, 108>>)
        THEN [ok |-> TRUE, val |-> [t |-> "none"], rest |-> SubSeq(s, 5, Len(s))]
        ELSE ParseNumber(s)

\* json.loads(text): [ok |-> TRUE, val |-> value] or [ok |-> FALSE] (JSONDecodeError)
JsonLoads(text) ==
    LET v == ParseValue(text)
    IN  IF v.ok /\ SkipWs(v.rest) = <<>> THEN [ok |-> TRUE, val |-> v.val]
        ELSE [ok |-> FALSE]

(***************************************************************************)
(* Inputs                                                                  *)
(***************************************************************************)
MaxLen == 5
MaxBytes == 2

\* 'a', ' ', '\t', '\n', '\r', DEL, U+00E9
Alphabet == {97, SP, TAB, LF, CR, TILDE + 1, 233}

Texts(n) == UNION {[1..k -> Alphabet] : k \in 0..n}

\* 'a', '\r', the two bytes of U+00E9 in UTF-8, and a byte no UTF-8 text holds
ByteAlphabet == {97, CR, 195, 169, 255}

ByteStrings(n) == UNION {[1..k -> ByteAlphabet] : k \in 0..n}

Scalars ==
    {[t |-> "int", n |-> n] : n \in {-12, 0, 7}}
        \cup {[t |-> "float", h |-> h] : h \in {-1, 3}}
        \cup {[t |-> "bool", v |-> v] : v \in BOOLEAN}
        \cup {[t |-> "none"], [t |-> "object"]}

\* "k", U+00E9, "k  "
Keys == {<<107>>, <<233>>, <<107, SP, SP>>}

Mappings ==
    {[t |-> "dict", items |-> <<>>]}
        \cup {[t |-> "dict", items |-> <<[k |-> k, v |-> Str(v)]>>] :
                 k \in Keys, v \in Texts(2)}
        \cup {[t |-> "dict", items |-> <<[k |-> <<107>>, v |-> Str(v)],
                                         [k |-> <<106>>, v |-> w]>>] :
                 v \in Texts(1), w \in Scalars}

Lists ==
    {[t |-> "list", items |-> <<>>]}
        \cup {[t |-> "list", items |-> <<Str(v)>>] : v \in Texts(2)}
        \cup {[t |-> "list", items |-> <<m, w>>] :
                 m \in {[t |-> "dict", items |-> <<[k |-> <<107>>, v |-> Str(<<97>>)]>>],
                        [t |-> "list", items |-> <<>>],
                        [t |-> "bytes", b |-> <<97>>]},
                 w \in Scalars}

\* the content values sanitizing is explored on
SanInputs ==
    {Str(s) : s \in Texts(MaxLen)}
        \cup {[t |-> "bytes", b |-> b] : b \in ByteStrings(MaxBytes)}
        \cup Scalars \cup Mappings \cup Lists

\* segment names: "d", "f", ".h", ".."
SegD == <<100>>
SegF == <<102>>
SegH == <<Dot, 104>>
Up == <<Dot, Dot>>

\* the raw paths of the file operations: f, d, d/f, d/../f
RawPaths == {<<SegF>>, <<SegD>>, <<SegD, SegF>>, <<SegD, Up, SegF>>}

\* the content values of the file operations: the default '', "a\r\nb\rc",
\* "a  b\n\n", {"k": "a"}, {"k": "<U+00E9>  a"}, 7, an object, invalid UTF-8
FileInputs ==
    {Str(<<>>), Str(<<97, CR, LF, 98, CR, 99>>), Str(<<97, SP, SP, 98, LF, LF>>),
     [t |-> "dict", items |-> <<[k |-> <<107>>, v |-> Str(<<97>>)]>>],
     [t |-> "dict", items |-> <<[k |-> <<107>>, v |-> Str(<<233, SP, SP, 97>>)]>>],
     [t |-> "int", n |-> 7], [t |-> "object"], [t |-> "bytes", b |-> <<255>>]}

\* what another program leaves in a file: invalid UTF-8, and "a\rb"
EnvData == {<<255>>, <<97, CR, 98>>}

Encodings == {"utf-8", "ascii", "latin-1"}

(***************************************************************************)
(* The state machine.  fs is the filesystem below the working directory,   *)
(* last the latest call: its arguments, the filesystem it found (pre) and  *)
(* what it returned or raised (out).  calls holds the calls that run side  *)
(* by side, one per process, each at its position in the code.             *)
(***************************************************************************)
\* the processes that call side by side
Procs == {1, 2}

Init ==
    /\ fs = (<<>> :> Dir(TRUE, TRUE))
    /\ last = [op |-> "none"]
    /\ calls = [p \in Procs |-> [pc |-> "idle"]]

Sanitize ==
    \E content \in SanInputs, compact \in BOOLEAN :
        /\ last' = [op |-> "sanitize", content |-> content, compact |-> compact,
                    out |-> _sanitize_content(content, compact)]
        /\ UNCHANGED <<fs, calls>>

Create(raws, contents, encodings) ==
    \E raw \in raws, content \in contents, overwrite \in BOOLEAN,
       compact \in BOOLEAN, encoding \in encodings :
        LET c == create_file(fs, raw, content, overwrite, compact, encoding)
        IN  /\ fs' = c.fs
            /\ UNCHANGED calls
            /\ last' = [op |-> "create_file", raw |-> raw, content |-> content,
                        overwrite |-> overwrite, compact |-> compact,
                        encoding |-> encoding, pre |-> fs, out |-> c.out]

Read(raws) ==
    \E raw \in raws, as_bytes \in BOOLEAN, encoding \in Encodings :
        LET r == read_file(fs, raw, as_bytes, encoding)
        IN  /\ fs' = r.fs
            /\ UNCHANGED calls
            /\ last' = [op |-> "read_file", raw |-> raw, as_bytes |-> as_bytes,
                        encoding |-> encoding, pre |-> fs, out |-> r.out]

Delete(raws) ==
    \E raw \in raws, ignore_missing \in BOOLEAN :
        LET d == delete_file(fs, raw, ignore_missing)
        IN  /\ fs' = d.fs
            /\ UNCHANGED calls
            /\ last' = [op |-> "delete_file", raw |-> raw,
                        ignore_missing |-> ignore_missing, pre |-> fs, out |-> d.out]

Validate(raws) ==
    \E raw \in raws, must_exist \in BOOLEAN, is_file \in {"None", "True", "False"},
       readable \in BOOLEAN, writable \in BOOLEAN, allow_hidden \in BOOLEAN :
        /\ last' = [op |-> "_validate_path", raw |-> raw, must_exist |-> must_exist,
                    is_file |-> is_file, readable |-> readable, writable |-> writable,
                    allow_hidden |-> allow_hidden, pre |-> fs,
                    out |-> _validate_path(fs, raw, must_exist, is_file, readable,
                                           writable, allow_hidden)]
        /\ UNCHANGED <<fs, calls>>

\* the tests' path.write_bytes(data): another program writes a file, a new
\* one in a directory it may write to, or over a file it may write to, whose
\* access bits stay
EnvWriteBytes(raws, datas) ==
    \E raw \in raws, data \in datas :
        LET p == Resolve(raw)
        IN  /\ IsDir(fs, Parent(p))
            /\ ~IsDir(fs, p)
            /\ IF Exists(fs, p) THEN AccessW(fs, p) ELSE AccessW(fs, Parent(p))
            /\ fs' = IF Exists(fs, p) THEN [fs EXCEPT ![p].data = data]
                      ELSE Put(fs, p, File(data, TRUE, TRUE))
            /\ UNCHANGED <<last, calls>>

\* the tests' dir_path.mkdir(): another program makes a directory, in a
\* directory it may write to
EnvMkdir(raws) ==
    \E raw \in raws :
        LET p == Resolve(raw)
        IN  /\ IsDir(fs, Parent(p))
            /\ ~Exists(fs, p)
            /\ AccessW(fs, Parent(p))
            /\ fs' = Put(fs, p, Dir(TRUE, TRUE))
            /\ UNCHANGED <<last, calls>>

\* the tests' file.chmod(mode): the read and write bits of a regular file
\* change (directories keep their mode, and so stay searchable)
EnvChmod(raws) ==
    \E raw \in raws, r \in BOOLEAN, w \in BOOLEAN :
        LET p == Resolve(raw)
        IN  /\ IsFile(fs, p)
            /\ fs' = [fs EXCEPT ![p].r = r, ![p].w = w]
            /\ UNCHANGED <<last, calls>>

\* the caller takes what the call returned or raised
Return ==
    /\ last.op # "none"
    /\ last' = [op |-> "none"]
    /\ UNCHANGED <<fs, calls>>

\* no call is under way
Idle == last.op = "none"

CreateFile == Idle /\ Create(RawPaths, FileInputs, {"utf-8", "latin-1"})
ReadFile == Idle /\ Read(RawPaths)
DeleteFile == Idle /\ Delete(RawPaths)
WriteBytes == Idle /\ EnvWriteBytes(RawPaths, EnvData)
MakeDir == Idle /\ EnvMkdir(RawPaths)
SetMode == Idle /\ EnvChmod({<<SegF>>, <<SegD, SegF>>})

\* the file operations on a directory other programs write to as well
Next ==
    CreateFile \/ ReadFile \/ DeleteFile \/ WriteBytes \/ MakeDir \/ SetMode \/ Return

Spec == Init /\ [][Next]_vars

\* the sanitizer alone
NextSan == (Idle /\ Sanitize) \/ Return

SpecSan == Init /\ [][NextSan]_vars

\* the raw paths validated: f, .h, d/../.h, f/.h, f/.
ValPaths == {<<SegF>>, <<SegH>>, <<SegD, Up, SegH>>, <<SegF, SegH>>, <<SegF, <<Dot>>>>}

ValidatePath == Idle /\ Validate(ValPaths)
ValWriteBytes == Idle /\ EnvWriteBytes({<<SegF>>, <<SegH>>}, {<<97>>})
ValMakeDir == Idle /\ EnvMkdir({<<SegF>>, <<SegH>>})
ValChmod == Idle /\ EnvChmod({<<SegF>>, <<SegH>>})

\* path validation on entries of every kind and access mode
NextVal == ValidatePath \/ ValWriteBytes \/ ValMakeDir \/ ValChmod \/ Return

SpecVal == Init /\ [][NextVal]_vars

\* one create_file in a fresh directory ...
WriteFresh == Idle /\ Create({<<SegD, SegF>>}, SanInputs, {"utf-8", "latin-1"})

\* ... read back as text with the same encoding ...
ReadBack ==
    /\ last.op = "create_file"
    /\ LET r == read_file(fs, last.raw, FALSE, last.encoding)
       IN  /\ fs' = r.fs
           /\ UNCHANGED calls
           /\ last' = [op |-> "read_back", created |-> last, out |-> r.out]

\* ... the text read written again the same way ...
WriteAgain ==
    /\ last.op = "read_back"
    /\ last.out.ok
    /\ LET c == create_file(fs, last.created.raw, Str(last.out.val), TRUE,
                            last.created.compact, last.created.encoding)
       IN  /\ fs' = c.fs
           /\ UNCHANGED calls
           /\ last' = [op |-> "write_again", text |-> last.out.val,
                       created |-> last.created, out |-> c.out]

\* ... and read back once more
ReadAgain ==
    /\ last.op = "write_again"
    /\ LET r == read_file(fs, last.created.raw, FALSE, last.created.encoding)
       IN  /\ fs' = r.fs
           /\ UNCHANGED calls
           /\ last' = [op |-> "read_again", text |-> last.text,
                       created |-> last.created, out |-> r.out]

NextRT == WriteFresh \/ ReadBack \/ WriteAgain \/ ReadAgain

SpecRT == Init /\ [][NextRT]_vars

(***************************************************************************)
(* Calls side by side.  Each process makes one call, _ensure_directory or  *)
(* create_file, and takes it one system call at a time, so that the other  *)
(* process can act between a test and the step that depends on it, and     *)
(* between the opening of a file and the writing of it.  A call is a       *)
(* record: its arguments, pc (the step it is about to take), stack         *)
(* (the Path.mkdir calls under way, innermost first), exc (the OSError     *)
(* Path.mkdir is handling), and two notes on what the call met: missing    *)
(* (directory.exists() was false) and raced (os.mkdir then found that      *)
(* directory made by the other process).                                   *)
(***************************************************************************)
\* segment names: "e", "g"
SegE == <<101>>
SegG == <<103>>

\* the directories ensured: d, d/e
RaceDirs == {<<SegD>>, <<SegD, SegE>>}

\* the files process p creates, below d and d/e: f for one process, g for
\* the other
RaceFiles(p) ==
    LET name == IF p = 1 THEN SegF ELSE SegG
    IN  {<<SegD, name>>, <<SegD, SegE, name>>}

\* the content values written side by side: "a", the default '', an object
RaceInputs == {Str(<<97>>), Str(<<>>), [t |-> "object"]}

\* process p's call becomes c
Goto(p, c) == calls' = [calls EXCEPT ![p] = c]

\* the call ends, returning or raising out
Done(c, out) == [c EXCEPT !.pc = "done", !.out = out]

\* return directory: to the caller, or on to the next statement of create_file
EnsureReturns(c) ==
    IF c.op = "_ensure_directory" THEN Done(c, [ok |-> TRUE, val |-> c.directory])
    ELSE [c EXCEPT !.pc = "sanitize"]

\* the except clauses around directory.mkdir
EnsureHandler(c, exc) ==
    Done(c, PathValidationError(c.directory,
                                IF exc = "PermissionError" THEN "PermissionDenied"
                                ELSE "DirectoryCreateFailed"))

\* Path.mkdir returns: to the Path.mkdir that called it, or to _ensure_directory
MkdirReturns(c) ==
    IF Len(c.stack) = 1 THEN EnsureReturns([c EXCEPT !.stack = <<>>])
    ELSE [c EXCEPT !.pc = "os_mkdir", !.stack = Tail(c.stack)]

\* a process calls _ensure_directory(directory, create_if_missing, exist_ok)
StartEnsure(p) ==
    /\ calls[p].pc = "idle"
    /\ \E raw \in RaceDirs, create_if_missing \in BOOLEAN, exist_ok \in BOOLEAN :
           Goto(p, [pc |-> "directory_exists", op |-> "_ensure_directory",
                    path |-> Resolve(raw), directory |-> Resolve(raw),
                    create_if_missing |-> create_if_missing, exist_ok |-> exist_ok,
                    content |-> [t |-> "none"], overwrite |-> FALSE,
                    compact |-> FALSE, encoding |-> "utf-8", stack |-> <<>>,
                    exc |-> "none", missing |-> FALSE, raced |-> FALSE,
                    out |-> [ok |-> FALSE]])
    /\ UNCHANGED <<fs, last>>

\* a process calls create_file(path, content, overwrite)
StartCreate(p) ==
    /\ calls[p].pc = "idle"
    /\ \E raw \in RaceFiles(p), content \in RaceInputs, overwrite \in BOOLEAN :
           Goto(p, [pc |-> "path_exists", op |-> "create_file",
                    path |-> Resolve(raw), directory |-> Parent(Resolve(raw)),
                    create_if_missing |-> TRUE, exist_ok |-> TRUE,
                    content |-> content, overwrite |-> overwrite,
                    compact |-> FALSE, encoding |-> "utf-8", stack |-> <<>>,
                    exc |-> "none", missing |-> FALSE, raced |-> FALSE,
                    out |-> [ok |-> FALSE]])
    /\ UNCHANGED <<fs, last>>

\* create_file: if path.exists() and not overwrite
PathExists(p) ==
    LET c == calls[p]
    IN  /\ c.pc = "path_exists"
        /\ Goto(p, IF OverwriteRefused(fs, c.path, c.overwrite)
                   THEN Done(c, PathValidationError(c.path, "AlreadyExists"))
                   ELSE [c EXCEPT !.pc = "directory_exists"])
        /\ UNCHANGED <<fs, last>>

\* _ensure_directory: if directory.exists(), and if not create_if_missing
DirectoryExists(p) ==
    LET c == calls[p]
    IN  /\ c.pc = "directory_exists"
        /\ Goto(p, IF Exists(fs, c.directory) THEN [c EXCEPT !.pc = "directory_is_dir"]
                   ELSE IF ~c.create_if_missing
                   THEN Done([c EXCEPT !.missing = TRUE],
                             PathValidationError(c.directory, "NotFound"))
                   ELSE [c EXCEPT !.pc = "os_mkdir", !.missing = TRUE,
                                  !.stack = <<[p |-> c.directory, parents |-> TRUE,
                                               exist_ok |-> MkdirExistOk(c.exist_ok)]>>])
        /\ UNCHANGED <<fs, last>>

\* _ensure_directory: if not directory.is_dir(), and if not exist_ok
DirectoryIsDir(p) ==
    LET c == calls[p]
    IN  /\ c.pc = "directory_is_dir"
        /\ Goto(p, IF ~IsDir(fs, c.directory)
                   THEN Done(c, PathValidationError(c.directory, "NotADirectory"))
                   ELSE IF ~c.exist_ok
                   THEN Done(c, PathValidationError(c.directory, "AlreadyExists"))
                   ELSE EnsureReturns(c))
        /\ UNCHANGED <<fs, last>>

\* Path.mkdir: os.mkdir(self), and what its except clauses do before their
\* next system call
MkdirOsMkdir(p) ==
    LET c == calls[p]
        top == Head(c.stack)
        m == OsMkdir(fs, top.p)
    IN  /\ c.pc = "os_mkdir"
        /\ fs' = IF m.ok THEN m.fs ELSE fs
        /\ Goto(p, IF m.ok THEN MkdirReturns(c)
                   ELSE IF m.exc = "FileNotFoundError"
                   THEN IF ~top.parents \/ Parent(top.p) = top.p
                        THEN EnsureHandler(c, m.exc)
                        ELSE [c EXCEPT !.stack =
                                  <<[p |-> Parent(top.p), parents |-> TRUE,
                                     exist_ok |-> TRUE],
                                    [p |-> top.p, parents |-> FALSE,
                                     exist_ok |-> top.exist_ok]>> \o Tail(c.stack)]
                   ELSE LET d == [c EXCEPT !.raced = c.raced \/ (/\ top.p = c.directory
                                                                 /\ c.missing
                                                                 /\ IsDir(fs, top.p))]
                        IN  IF ~top.exist_ok THEN EnsureHandler(d, m.exc)
                            ELSE [d EXCEPT !.pc = "mkdir_is_dir", !.exc = m.exc])
        /\ UNCHANGED last

\* Path.mkdir: if not exist_ok or not self.is_dir(): raise
MkdirIsDir(p) ==
    LET c == calls[p]
        top == Head(c.stack)
    IN  /\ c.pc = "mkdir_is_dir"
        /\ Goto(p, IF ~IsDir(fs, top.p) THEN EnsureHandler(c, c.exc)
                   ELSE MkdirReturns(c))
        /\ UNCHANGED <<fs, last>>

\* create_file: safe_content = _sanitize_content(content, compact = compact)
SanitizeContent(p) ==
    LET c == calls[p]
        safe_content == _sanitize_content(c.content, c.compact)
    IN  /\ c.pc = "sanitize"
        /\ Goto(p, IF safe_content.ok THEN [c EXCEPT !.pc = "write_text"]
                   ELSE Done(c, safe_content))
        /\ UNCHANGED <<fs, last>>

\* create_file: path.write_text(safe_content, encoding = encoding), its
\* open(mode = 'w'), which makes or empties the file
PathWriteTextOpen(p) ==
    LET c == calls[p]
        opened == OpenW(fs, c.path)
    IN  /\ c.pc = "write_text"
        /\ fs' = opened.fs
        /\ Goto(p, IF opened.ok THEN [c EXCEPT !.pc = "f_write"]
                   ELSE Done(c, CreateHandler(c.path, opened.exc)))
        /\ UNCHANGED last

\* create_file: path.write_text, its f.write(data) and close; return path
PathWriteTextWrite(p) ==
    LET c == calls[p]
        e == Encode(_sanitize_content(c.content, c.compact).val, c.encoding)
    IN  /\ c.pc = "f_write"
        /\ fs' = IF e.ok THEN FileWrite(fs, c.path, e.val) ELSE fs
        /\ Goto(p, Done(c, IF e.ok THEN [ok |-> TRUE, val |-> c.path]
                           ELSE [ok |-> FALSE, exc |-> "ValueError",
                                 why |-> "encode"]))
        /\ UNCHANGED last

\* two processes, each in one call, their system calls in any order
NextRace ==
    \E p \in Procs :
        \/ StartEnsure(p)
        \/ StartCreate(p)
        \/ PathExists(p)
        \/ DirectoryExists(p)
        \/ DirectoryIsDir(p)
        \/ MkdirOsMkdir(p)
        \/ MkdirIsDir(p)
        \/ SanitizeContent(p)
        \/ PathWriteTextOpen(p)
        \/ PathWriteTextWrite(p)

SpecRace == Init /\ [][NextRace]_vars

(***************************************************************************)
(* Claims                                                                  *)
(***************************************************************************)
\* the path the latest call was about
LastPath == Resolve(last.raw)

Raised(out, exc, why) == ~out.ok /\ out.exc = exc /\ out.why = why

\* C1: delete_file(p, ignore_missing = true) returns false when p does not
\* exist, and never raises; when p is a regular file it returns true and p
\* no longer exists afterwards.
C1_DeleteIgnoreMissing ==
    (last.op = "delete_file" /\ last.ignore_missing) =>
        /\ ~Exists(last.pre, LastPath) => last.out = [ok |-> TRUE, val |-> FALSE]
        /\ IsFile(last.pre, LastPath) =>
               (last.out = [ok |-> TRUE, val |-> TRUE] /\ ~Exists(fs, LastPath))

\* a content value the interface accepts: one of the supported types, which
\* converts to text
Accepted(content, compact) == ToText(content, compact).ok

\* C2: for every accepted content value, the default empty string included,
\* create_file(p, data, overwrite = false) on a p that does not exist
\* succeeds, and afterwards p is a file holding the sanitized form of data
\* (stated where the parent of p is a directory the caller may write to).
C2_CreateWritesSanitized ==
    (/\ last.op = "create_file"
     /\ ~last.overwrite
     /\ Accepted(last.content, last.compact)
     /\ ~Exists(last.pre, LastPath)
     /\ IsDir(last.pre, Parent(LastPath))
     /\ AccessW(last.pre, Parent(LastPath))) =>
        LET s == _sanitize_content(last.content, last.compact)
        IN  /\ last.out = [ok |-> TRUE, val |-> LastPath]
            /\ IsFile(fs, LastPath)
            /\ s.ok
            /\ fs[LastPath].data = Encode(s.val, last.encoding).val

\* C3: create_file(p, data, overwrite = false) fails with AlreadyExists if
\* and only if p exists beforehand, whatever data is, and then the entry at
\* p is left as it was.
C3_AlreadyExistsIff ==
    (last.op = "create_file" /\ ~last.overwrite) =>
        /\ Exists(last.pre, LastPath)
               <=> Raised(last.out, "PathValidationError", "AlreadyExists")
        /\ Exists(last.pre, LastPath) =>
               (Exists(fs, LastPath) /\ fs[LastPath] = last.pre[LastPath])

\* C3's case: the call refused on a file that holds other content than the
\* call would have written
C3_Witness ==
    /\ last.op = "create_file"
    /\ ~last.overwrite
    /\ IsFile(last.pre, LastPath)
    /\ _sanitize_content(last.content, last.compact).ok
    /\ last.pre[LastPath].data
           # Utf8Encode(_sanitize_content(last.content, last.compact).val)
    /\ Raised(last.out, "PathValidationError", "AlreadyExists")

\* C4: for every JSON-serializable mapping m, create_file(p, m,
\* compact = true) and then parsing the content of p as JSON yields a
\* structure equal to m.
C4_JsonRoundTrip ==
    (/\ last.op = "create_file"
     /\ last.content.t = "dict"
     /\ last.compact
     /\ last.out.ok) =>
        LET text == ReadText(fs, LastPath, "utf-8")
        IN  text.ok /\ JsonLoads(text.val) = [ok |-> TRUE, val |-> last.content]

\* C5: read_file(p, asBytes = false, encoding = e) on a readable regular
\* file whose bytes e cannot decode fails with UnicodeDecodeError, and with
\* no other error kind.
C5_DecodeErrorKind ==
    (/\ last.op = "read_file"
     /\ ~last.as_bytes
     /\ IsFile(last.pre, LastPath)
     /\ AccessR(last.pre, LastPath)
     /\ ~Decode(last.pre[LastPath].data, last.encoding).ok) =>
        (~last.out.ok /\ last.out.exc = "UnicodeDecodeError")

\* C6: whenever sanitize(v) succeeds with result s, create_file(p, v) and
\* then read_file(p) as text in the same encoding returns exactly s, and
\* writing s itself again leaves the content read back equal to s.
C6_TextRoundTrip ==
    /\ last.op = "read_back" =>
           LET s == _sanitize_content(last.created.content, last.created.compact)
           IN  s.ok => (last.created.out.ok /\ last.out = [ok |-> TRUE, val |-> s.val])
    /\ last.op = "write_again" => last.out.ok
    /\ last.op = "read_again" => last.out = [ok |-> TRUE, val |-> last.text]

\* C6's case: text with a carriage return written, read, written again and
\* read again, with a line feed in what is read
C6_Witness ==
    /\ last.op = "read_again"
    /\ last.out.ok
    /\ last.created.content.t = "str"
    /\ \E i \in 1..Len(last.created.content.s) : last.created.content.s[i] = CR
    /\ \E i \in 1..Len(last.out.val) : last.out.val[i] = LF

\* C7: delete_file on an existing directory fails with WrongKind or
\* IsADirectory for both values of ignore_missing, returns neither true nor
\* false, and the directory is still there afterwards.
C7_DeleteDirectoryFails ==
    (last.op = "delete_file" /\ IsDir(last.pre, LastPath)) =>
        /\ ~last.out.ok
        /\ last.out.exc = "PathValidationError"
        /\ last.out.why \in {"WrongKind", "IsADirectory"}
        /\ IsDir(fs, LastPath)
        /\ fs = last.pre

\* C7's case: a directory, and ignore_missing set
C7_Witness ==
    /\ last.op = "delete_file"
    /\ last.ignore_missing
    /\ IsDir(last.pre, LastPath)
    /\ LastPath # <<>>
    /\ ~last.out.ok

\* C8: whenever sanitize(value, compact = true) succeeds, the result holds
\* no two consecutive newlines, no run of two or more spaces or tabs, and no
\* leading or trailing whitespace.
C8_CompactShape ==
    (last.op = "sanitize" /\ last.compact /\ last.out.ok) =>
        LET s == last.out.val
        IN  /\ \A i \in 1..(Len(s) - 1) : ~(s[i] = LF /\ s[i + 1] = LF)
            /\ \A i \in 1..(Len(s) - 1) : ~(IsBlank(s[i]) /\ IsBlank(s[i + 1]))
            /\ s # <<>>
            /\ ~IsSpace(s[1])
            /\ ~IsSpace(s[Len(s)])

\* C8's case: text with a doubled newline and a blank at an end
C8_Witness ==
    /\ last.op = "sanitize"
    /\ last.compact
    /\ last.out.ok
    /\ last.content = Str(<<SP, 97, LF, LF, 97>>) \/ last.content = Str(<<97, LF, LF, TAB>>)
           \/ last.content = Str(<<TAB, LF, LF, 97>>)

\* the text the line-ending rule asks for: each CRLF and each lone CR one LF,
\* the other kept characters in place
NormalizedFirst(s) == StripControl(NormalizeNewlines(s))

\* C9: sanitize turns each CRLF and each lone CR of the input into exactly
\* one LF; with compact = false the output has one LF for every CRLF, lone
\* CR and LF of the input, in place among the kept characters.
C9_LineEndings ==
    (/\ last.op = "sanitize"
     /\ last.content.t = "str"
     /\ ~last.compact
     /\ last.out.ok) =>
        last.out.val = NormalizedFirst(last.content.s)

\* the checks of a _validate_path call in their order:
\* <<requested, passes, the kind it fails with>>
Checks(c) ==
    LET p == Resolve(c.raw)
    IN  << <<c.must_exist, Exists(c.pre, p), "NotFound">>,
           <<c.is_file # "None",
             IF c.is_file = "True" THEN IsFile(c.pre, p) ELSE IsDir(c.pre, p),
             "WrongKind">>,
           <<~c.allow_hidden, ~StartsWithDot(Name(p)), "HiddenRejected">>,
           <<c.readable, AccessR(c.pre, p), "NotReadable">>,
           <<c.writable, AccessW(c.pre, p), "NotWritable">> >>

Failing(c) == {i \in 1..5 : Checks(c)[i][1] /\ ~Checks(c)[i][2]}

\* C10: validate returns the resolved path if and only if every requested
\* check passes; otherwise it fails with the kind of the first failing check
\* in the order NotFound, WrongKind, HiddenRejected, NotReadable,
\* NotWritable; and it never changes the filesystem.
C10_FirstFailingCheck ==
    last.op = "_validate_path" =>
        /\ last.out.ok <=> Failing(last) = {}
        /\ last.out.ok => last.out.val = LastPath
        /\ ~last.out.ok =>
               /\ last.out.exc = "PathValidationError"
               /\ \E i \in Failing(last) :
                      /\ \A j \in Failing(last) : i <= j
                      /\ last.out.why = Checks(last)[i][3]
        /\ fs = last.pre

\* C10's case: a hidden, unreadable, read-only file fails three checks, and
\* the hidden one is reported
C10_Witness ==
    /\ last.op = "_validate_path"
    /\ IsFile(last.pre, LastPath)
    /\ Failing(last) = {3, 4, 5}
    /\ Raised(last.out, "PathValidationError", "HiddenRejected")

\* the calls that have ended
Ended == {p \in Procs : calls[p].pc = "done"}

\* C11: an _ensure_directory(directory, create_if_missing = true,
\* exist_ok = true) that found directory missing, and whose creation step
\* then found it made by another process, still returns the resolved
\* directory; and no create_file of two that run side by side on different
\* files below the same missing directory fails over the directory: it
\* returns its path unless its own content is refused.
C11_RaceTolerated ==
    \A p \in Ended :
        LET c == calls[p]
        IN  /\ (c.create_if_missing /\ c.exist_ok /\ c.missing /\ c.raced) =>
                   IF c.op = "_ensure_directory"
                   THEN c.out = [ok |-> TRUE, val |-> c.directory]
                   ELSE c.out \in {[ok |-> TRUE, val |-> c.path],
                                   _sanitize_content(c.content, c.compact)}
            /\ c.op = "create_file" =>
                   /\ c.out \in {[ok |-> TRUE, val |-> c.path],
                                 _sanitize_content(c.content, c.compact)}
                   /\ c.out.ok => (IsDir(fs, c.directory) /\ IsFile(fs, c.path))

\* C11's case: two create_file calls below the same directory have both
\* returned their paths, and one of them found the directory missing and
\* then made by the other
C11_Witness ==
    \E p \in Ended, q \in Ended :
        /\ p # q
        /\ calls[p].op = "create_file"
        /\ calls[q].op = "create_file"
        /\ calls[p].directory = calls[q].directory
        /\ calls[p].missing
        /\ calls[p].raced
        /\ calls[p].out.ok
        /\ calls[q].out.ok

\* create_file failed with AlreadyExists, with the TypeError of a content
\* value that does not convert to text, or with the ValueError of empty
\* content
FailedBeforeWriting ==
    /\ last.op = "create_file"
    /\ \/ Raised(last.out, "PathValidationError", "AlreadyExists")
       \/ (~last.out.ok /\ last.out.exc = "TypeError")
       \/ Raised(last.out, "ValueError", "empty")

\* q is p or lies above p
IsPrefix(q, p) == Len(q) <= Len(p) /\ SubSeq(p, 1, Len(q)) = q

\* C12: when create_file(p, data, ...) fails with AlreadyExists,
\* UnsupportedType or EmptyContent, the entry at p is untouched (a file that
\* was there keeps its content, a missing p stays missing), every entry that
\* was there is as it was, and whatever is new is a directory above p.
C12_FailedCreateLeavesEntry ==
    FailedBeforeWriting =>
        /\ Exists(fs, LastPath) <=> Exists(last.pre, LastPath)
        /\ \A q \in DOMAIN last.pre : Exists(fs, q) /\ fs[q] = last.pre[q]
        /\ \A q \in DOMAIN fs \ DOMAIN last.pre :
               IsDir(fs, q) /\ IsPrefix(q, Parent(LastPath))

\* C12's case: overwrite allowed on a file that holds content, the content
\* value refused, and the file as it was
C12_Witness ==
    /\ FailedBeforeWriting
    /\ last.overwrite
    /\ IsFile(last.pre, LastPath)
    /\ last.pre[LastPath].data # <<>>
    /\ last.out.exc \in {"TypeError", "ValueError"}
    /\ fs[LastPath] = last.pre[LastPath]
====
